---- MODULE Spec2Model ----
(***************************************************************************)
(* A model of the matrix engine of src-tauri/src/lib.rs: struct Matrix,    *)
(* its methods (determinant, transpose, inverse, gaussian_elimination,     *)
(* cramer_rule), its FromStr implementation and its arithmetic operators.  *)
(*                                                                         *)
(* Numbers.  An f64 is modelled by a pair <<n, d>>:                        *)
(*   d > 0  : the finite value n/d, in lowest terms;                       *)
(*   <<1,0>>, <<-1,0>> : +infinity and -infinity;   <<0,0>> : NaN.         *)
(* The IEEE rules for the non-finite values (0/0, x/0, inf-inf, 0*inf,     *)
(* every comparison with NaN false) are modelled as they are; rounding is  *)
(* not: finite results are exact rationals.  -0.0 is identified with 0.0   *)
(* (the two compare equal, and with operands free of -0.0 no divisor of    *)
(* the code is ever -0.0).                                                 *)
(*                                                                         *)
(* Indices.  The code indexes from 0, TLA+ sequences from 1: the loops     *)
(* below keep the code's 0-based indices and add 1 at each access.         *)
(***************************************************************************)
EXTENDS Integers, Sequences, FiniteSets, TLC

VARIABLES a, b, text, op, out, pc, aug, gi, max_row

vars == <<a, b, text, op, out, pc, aug, gi, max_row>>

----------------------------------------------------------------------------
(* f64 arithmetic *)

Abs(n) == IF n < 0 THEN -n ELSE n

Sign(n) == IF n < 0 THEN -1 ELSE IF n > 0 THEN 1 ELSE 0

RECURSIVE GCD(_, _)
GCD(m, n) == IF n = 0 THEN m ELSE GCD(n, m % n)

Norm(n, d) ==
    LET g == GCD(Abs(n), d) IN <<n \div g, d \div g>>

F(n) == <<n, 1>>

NaN == <<0, 0>>

IsNaN(x) == x = NaN

IsInf(x) == x[2] = 0 /\ x[1] # 0

IsFinite(x) == x[2] > 0

IsZero(x) == IsFinite(x) /\ x[1] = 0

FNeg(x) == <<-x[1], x[2]>>

FAdd(x, y) ==
    IF IsNaN(x) \/ IsNaN(y) THEN NaN
    ELSE IF IsInf(x) THEN (IF IsInf(y) /\ y # x THEN NaN ELSE x)
    ELSE IF IsInf(y) THEN y
    ELSE Norm(x[1] * y[2] + y[1] * x[2], x[2] * y[2])

FSub(x, y) == FAdd(x, FNeg(y))

FMul(x, y) ==
    IF IsNaN(x) \/ IsNaN(y) THEN NaN
    ELSE IF IsInf(x) \/ IsInf(y)
         THEN (IF IsZero(x) \/ IsZero(y) THEN NaN
               ELSE <<Sign(x[1]) * Sign(y[1]), 0>>)
    ELSE Norm(x[1] * y[1], x[2] * y[2])

FDiv(x, y) ==
    IF IsNaN(x) \/ IsNaN(y) THEN NaN
    ELSE IF IsInf(x)
         THEN (IF IsInf(y) THEN NaN
               ELSE <<Sign(x[1]) * (IF y[1] < 0 THEN -1 ELSE 1), 0>>)
    ELSE IF IsInf(y) THEN F(0)
    ELSE IF y[1] = 0 THEN (IF x[1] = 0 THEN NaN ELSE <<Sign(x[1]), 0>>)
    ELSE Norm(x[1] * y[2] * Sign(y[1]), x[2] * Abs(y[1]))

FAbs(x) == <<Abs(x[1]), x[2]>>

\* x > y on f64: false whenever an operand is NaN
FGt(x, y) ==
    IF IsNaN(x) \/ IsNaN(y) THEN FALSE
    ELSE IF IsInf(x) THEN x[1] > 0 /\ y # x
    ELSE IF IsInf(y) THEN y[1] < 0
    ELSE x[1] * y[2] > y[1] * x[2]

\* x == y on f64: NaN equals nothing, itself included
FEq(x, y) == ~IsNaN(x) /\ ~IsNaN(y) /\ x = y

----------------------------------------------------------------------------
(* struct Matrix and Result values *)

Matrix(r, c, d) == [rows |-> r, cols |-> c, data |-> d]

\* vec![vec![0.0; cols]; rows]
new(rows, cols) ==
    Matrix(rows, cols, [i \in 1..rows |-> [j \in 1..cols |-> F(0)]])

\* m.data[i][j], i and j counted from 0
At(m, i, j) == m.data[i + 1][j + 1]

\* m.data[i][j] = v
Set(m, i, j, v) ==
    [m EXCEPT !.data = [@ EXCEPT ![i + 1] = [@ EXCEPT ![j + 1] = v]]]

NoMatrix == new(0, 0)

Res(tag, err, m, x, v) == [tag |-> tag, err |-> err, m |-> m, x |-> x, v |-> v]

NoResult == Res("None", "", NoMatrix, F(0), <<>>)

OkMatrix(m) == Res("OkMatrix", "", m, F(0), <<>>)

OkScalar(x) == Res("OkScalar", "", NoMatrix, x, <<>>)

OkVector(v) == Res("OkVector", "", NoMatrix, F(0), v)

Err(e) == Res("Err", e, NoMatrix, F(0), <<>>)

\* the thread unwinds: no value is returned
Panic(e) == Res("Panic", e, NoMatrix, F(0), <<>>)

IsOk(r) == r.tag \in {"OkMatrix", "OkScalar", "OkVector"}

ErrNotSquare == "Determinant can only be calculated for square matrices"

ErrNotInvertible == "Matrix is not invertible (determinant is 0)"

ErrGaussDims == "Invalid matrix dimensions for Gaussian elimination"

ErrCramerDims == "Invalid matrix dimensions for Cramer's rule"

ErrNoUniqueSolution == "System has no unique solution (determinant is 0)"

ErrEmptyString == "Empty matrix string"

ErrEmptyRow == "Empty matrix row"

ErrInvalidNumber == "Invalid number in matrix"

ErrInconsistentColumns == "Inconsistent number of columns"

ErrDifferentDims == "Matrices have different dimensions"

ErrIncompatible == "Matrices cannot be multiplied due to incompatible dimensions"

PanicSubOverflow == "attempt to subtract with overflow"

----------------------------------------------------------------------------
(* Matrix::determinant, Matrix::transpose, Matrix::inverse *)

\* the minor built at lines 50-59: rows 1.. of m, column j left out
SubmatrixRow0(m, j) ==
    Matrix(m.rows - 1, m.cols - 1,
           [i \in 1..(m.rows - 1) |->
               [k \in 1..(m.cols - 1) |->
                   At(m, i, IF k - 1 < j THEN k - 1 ELSE k)]])

\* the sign left out of the expansion
CofactorSignConstant(n) == F(1)

CofactorSign(n) == IF n % 2 = 0 THEN F(1) ELSE F(-1)

RECURSIVE DetValue(_)
RECURSIVE DetLoop(_, _, _)
\* the loop of lines 49-61, from column j on, det the sum so far
DetLoop(m, j, det) ==
    IF j >= m.cols THEN det
    ELSE DetLoop(m, j + 1,
                 FAdd(det, FMul(FMul(At(m, 0, j), DetValue(SubmatrixRow0(m, j))),
                                CofactorSign(j))))

\* determinant of a square matrix (lines 40-63)
DetValue(m) ==
    IF m.rows = 1 THEN At(m, 0, 0)
    ELSE IF m.rows = 2
         THEN FSub(FMul(At(m, 0, 0), At(m, 1, 1)), FMul(At(m, 0, 1), At(m, 1, 0)))
    ELSE DetLoop(m, 0, F(0))

determinant(m) ==
    IF m.rows # m.cols THEN Err(ErrNotSquare) ELSE OkScalar(DetValue(m))

transpose(m) ==
    Matrix(m.cols, m.rows,
           [j \in 1..m.cols |-> [i \in 1..m.rows |-> m.data[i][j]]])

\* impl Mul<f64> for Matrix
mul_scalar(m, scalar) ==
    Matrix(m.rows, m.cols,
           [i \in 1..m.rows |-> [j \in 1..m.cols |-> FMul(m.data[i][j], scalar)]])

\* the minor built at lines 93-108: row i and column j left out
Submatrix(m, i, j) ==
    Matrix(m.rows - 1, m.cols - 1,
           [r \in 1..(m.rows - 1) |->
               [c \in 1..(m.cols - 1) |->
                   At(m, IF r - 1 < i THEN r - 1 ELSE r,
                         IF c - 1 < j THEN c - 1 ELSE c)]])

\* lines 90-111
Adjugate(m) ==
    Matrix(m.rows, m.cols,
           [i \in 1..m.rows |->
               [j \in 1..m.cols |->
                   FMul(DetValue(Submatrix(m, i - 1, j - 1)),
                        CofactorSign((i - 1) + (j - 1)))]])

\* the cofactor matrix scaled, its transposition left out
inverse_of_cofactors(m) ==
    LET d == determinant(m) IN
    IF d.tag = "Err" THEN d
    ELSE IF FEq(d.x, F(0)) THEN Err(ErrNotInvertible)
    ELSE IF m.rows = 1 THEN OkMatrix(Matrix(1, 1, <<<<FDiv(F(1), d.x)>>>>))
    ELSE OkMatrix(mul_scalar(Adjugate(m), FDiv(F(1), d.x)))

inverse(m) ==
    LET d == determinant(m) IN
    IF d.tag = "Err" THEN d
    ELSE IF FEq(d.x, F(0)) THEN Err(ErrNotInvertible)
    ELSE IF m.rows = 1 THEN OkMatrix(Matrix(1, 1, <<<<FDiv(F(1), d.x)>>>>))
    ELSE OkMatrix(mul_scalar(transpose(Adjugate(m)), FDiv(F(1), d.x)))

----------------------------------------------------------------------------
(* impl Add, Sub, Mul for Matrix *)

add(m, other) ==
    IF m.rows # other.rows \/ m.cols # other.cols THEN Err(ErrDifferentDims)
    ELSE OkMatrix(Matrix(m.rows, m.cols,
            [i \in 1..m.rows |->
                [j \in 1..m.cols |-> FAdd(m.data[i][j], other.data[i][j])]]))

\* the body of add pasted unchanged
sub_adding(m, other) == add(m, other)

sub(m, other) ==
    IF m.rows # other.rows \/ m.cols # other.cols THEN Err(ErrDifferentDims)
    ELSE OkMatrix(Matrix(m.rows, m.cols,
            [i \in 1..m.rows |->
                [j \in 1..m.cols |-> FSub(m.data[i][j], other.data[i][j])]]))

RECURSIVE MulLoopAssign(_, _, _, _, _, _)
\* `=` written for `+=`
MulLoopAssign(m, other, i, j, k, acc) ==
    IF k >= m.cols THEN acc
    ELSE MulLoopAssign(m, other, i, j, k + 1, FMul(At(m, i, k), At(other, k, j)))

RECURSIVE MulLoop(_, _, _, _, _, _)
\* the loop of lines 316-318 for one (i, j), from k on, acc = result.data[i][j]
MulLoop(m, other, i, j, k, acc) ==
    IF k >= m.cols THEN acc
    ELSE MulLoop(m, other, i, j, k + 1,
                 FAdd(acc, FMul(At(m, i, k), At(other, k, j))))

mul(m, other) ==
    IF m.cols # other.rows THEN Err(ErrIncompatible)
    ELSE OkMatrix(Matrix(m.rows, other.cols,
            [i \in 1..m.rows |->
                [j \in 1..other.cols |-> MulLoop(m, other, i - 1, j - 1, 0, F(0))]]))

----------------------------------------------------------------------------
(* Matrix::gaussian_elimination *)

RECURSIVE ScanMaxRowLast(_, _, _, _)
\* `>=` written for `>`: the last of several largest rows wins
ScanMaxRowLast(m, i, k, max) ==
    IF k >= m.rows THEN max
    ELSE ScanMaxRowLast(m, i, k + 1,
                        IF \/ FGt(FAbs(At(m, k, i)), FAbs(At(m, max, i)))
                           \/ FEq(FAbs(At(m, k, i)), FAbs(At(m, max, i)))
                        THEN k ELSE max)

RECURSIVE ScanMaxRow(_, _, _, _)
\* the scan of lines 127-132, from row k on
ScanMaxRow(m, i, k, max) ==
    IF k >= m.rows THEN max
    ELSE ScanMaxRow(m, i, k + 1,
                    IF FGt(FAbs(At(m, k, i)), FAbs(At(m, max, i)))
                    THEN k ELSE max)

\* data.swap(i, j)
SwapRows(m, i, j) ==
    [m EXCEPT !.data = [@ EXCEPT ![i + 1] = m.data[j + 1], ![j + 1] = m.data[i + 1]]]

\* lines 127-132: the row chosen as the pivot row of step i
MaxRow(m, i) == ScanMaxRow(m, i, i + 1, i)

\* no pivoting: the rows stay where they are
PivotStepNoSwap(m, i) == m

\* lines 127-137: choose the pivot row of step i and swap it into place
PivotStep(m, i) ==
    IF MaxRow(m, i) # i THEN SwapRows(m, i, MaxRow(m, i)) ELSE m

\* lines 140-145: clear column i below row i
EliminateStep(m, i) ==
    [m EXCEPT !.data =
        [k \in 1..m.rows |->
            IF k - 1 > i
            THEN LET factor == FDiv(At(m, k - 1, i), At(m, i, i)) IN
                 [j \in 1..m.cols |->
                     IF j - 1 >= i
                     THEN FSub(m.data[k][j], FMul(factor, At(m, i, j - 1)))
                     ELSE m.data[k][j]]
            ELSE m.data[k]]]

RECURSIVE BackInner(_, _, _, _, _)
\* the loop of lines 152-154, from j on, s = solutions[i]
BackInner(m, solutions, i, j, s) ==
    IF j >= m.rows THEN s
    ELSE BackInner(m, solutions, i, j + 1,
                   FSub(s, FMul(At(m, i, j), solutions[j + 1])))

RECURSIVE BackLoop(_, _, _)
\* the loop of lines 150-156, from row i down
BackLoop(m, i, solutions) ==
    IF i < 0 THEN solutions
    ELSE LET s == BackInner(m, solutions, i, i + 1, At(m, i, m.cols - 1)) IN
         BackLoop(m, i - 1, [solutions EXCEPT ![i + 1] = FDiv(s, At(m, i, i))])

\* lines 149-158
BackSubstitute(m) == BackLoop(m, m.rows - 1, [i \in 1..m.rows |-> F(0)])

RECURSIVE ForwardLoop(_, _)
\* the loop of lines 125-146, from pivot step i on
ForwardLoop(m, i) ==
    IF i >= m.rows THEN m
    ELSE ForwardLoop(EliminateStep(PivotStep(m, i), i), i + 1)

GaussDimsOk(m) == m.rows + 1 = m.cols

gaussian_elimination(m) ==
    IF ~GaussDimsOk(m) THEN Err(ErrGaussDims)
    ELSE OkVector(BackSubstitute(ForwardLoop(m, 0)))

----------------------------------------------------------------------------
(* Matrix::cramer_rule *)

\* usize::MAX, which 0usize - 1 wraps to, written as its residue -1 (mod 2^64);
\* no row count equals it
WrappedMinusOne == 0 - 1

\* lines 168-173
CoreMatrix(m, n) ==
    Matrix(n, n, [i \in 1..n |-> [j \in 1..n |-> m.data[i][j]]])

\* lines 183-186: the coefficient block with column i replaced by column n of m
TempMatrix(m, core, n, i) ==
    [core EXCEPT !.data = [r \in 1..n |-> [@[r] EXCEPT ![i + 1] = At(m, r - 1, n)]]]

\* self.cols - 1 on usize: with overflow checks (a debug build) 0 - 1 panics,
\* without them (a release build) it wraps
cramer_rule(m, overflow_checks) ==
    LET n == m.rows IN
    IF m.cols = 0 /\ overflow_checks THEN Panic(PanicSubOverflow)
    ELSE IF n # (IF m.cols = 0 THEN WrappedMinusOne ELSE m.cols - 1)
         THEN Err(ErrCramerDims)
    ELSE LET core == CoreMatrix(m, n)
             det_a == DetValue(core)
         IN  IF FEq(det_a, F(0)) THEN Err(ErrNoUniqueSolution)
             ELSE OkVector([i \in 1..n |->
                     FDiv(DetValue(TempMatrix(m, core, n, i - 1)), det_a)])

----------------------------------------------------------------------------
(* impl FromStr for Matrix; a &str is a sequence of characters *)

IsWhitespace(ch) == ch \in {" ", "\n"}

IsDigit(ch) == ch \in {"0", "1", "2", "3", "4", "5", "6", "7", "8", "9"}

DigitValue(ch) ==
    CASE ch = "0" -> 0 [] ch = "1" -> 1 [] ch = "2" -> 2 [] ch = "3" -> 3
      [] ch = "4" -> 4 [] ch = "5" -> 5 [] ch = "6" -> 6 [] ch = "7" -> 7
      [] ch = "8" -> 8 [] ch = "9" -> 9

RECURSIVE TrimStart(_)
TrimStart(s) ==
    IF s # <<>> /\ IsWhitespace(Head(s)) THEN TrimStart(Tail(s)) ELSE s

RECURSIVE TrimEnd(_)
TrimEnd(s) ==
    IF s # <<>> /\ IsWhitespace(s[Len(s)])
    THEN TrimEnd(SubSeq(s, 1, Len(s) - 1)) ELSE s

\* str::trim
Trim(s) == TrimEnd(TrimStart(s))

RECURSIVE SplitLoop(_, _, _)
\* str::split('\n'): cur is the piece being read, done the pieces before it
SplitLoop(s, cur, done) ==
    IF s = <<>> THEN Append(done, cur)
    ELSE IF Head(s) = "\n" THEN SplitLoop(Tail(s), <<>>, Append(done, cur))
    ELSE SplitLoop(Tail(s), Append(cur, Head(s)), done)

SplitNewline(s) == SplitLoop(s, <<>>, <<>>)

RECURSIVE WordsLoop(_, _, _)
\* str::split_whitespace: the non-empty maximal runs of non-whitespace
WordsLoop(s, cur, done) ==
    IF s = <<>> THEN (IF cur = <<>> THEN done ELSE Append(done, cur))
    ELSE IF IsWhitespace(Head(s))
         THEN WordsLoop(Tail(s), <<>>, IF cur = <<>> THEN done ELSE Append(done, cur))
    ELSE WordsLoop(Tail(s), Append(cur, Head(s)), done)

SplitWhitespace(s) == WordsLoop(s, <<>>, <<>>)

RECURSIVE DigitsValue(_, _)
DigitsValue(s, acc) ==
    IF s = <<>> THEN acc ELSE DigitsValue(Tail(s), 10 * acc + DigitValue(Head(s)))

\* str::parse::<f64> on the tokens of the alphabet used here (digits, '-' and
\* letters): an optional '-' and then one or more digits; anything else fails
ParseF64(tok) ==
    LET body == IF tok # <<>> /\ Head(tok) = "-" THEN Tail(tok) ELSE tok
        neg  == tok # <<>> /\ Head(tok) = "-"
    IN  IF body # <<>> /\ \A p \in 1..Len(body) : IsDigit(body[p])
        THEN [ok |-> TRUE,
              val |-> F(IF neg THEN -DigitsValue(body, 0) ELSE DigitsValue(body, 0))]
        ELSE [ok |-> FALSE, val |-> NaN]

RECURSIVE ParseRowsCountFirst(_, _, _, _)
\* the token count checked before the tokens are parsed
ParseRowsCountFirst(rows, r, cols_count, data) ==
    IF r >= Len(rows) THEN OkMatrix(Matrix(Len(rows), cols_count, data))
    ELSE LET toks == SplitWhitespace(Trim(rows[r + 1])) IN
         IF Len(toks) # cols_count THEN Err(ErrInconsistentColumns)
         ELSE IF \E p \in 1..Len(toks) : ~ParseF64(toks[p]).ok THEN Err(ErrInvalidNumber)
         ELSE ParseRowsCountFirst(rows, r + 1, cols_count,
                        Append(data, [p \in 1..Len(toks) |-> ParseF64(toks[p]).val]))

RECURSIVE ParseRows(_, _, _, _)
\* the loop of lines 210-220, from row r on, data the rows pushed so far
ParseRows(rows, r, cols_count, data) ==
    IF r >= Len(rows) THEN OkMatrix(Matrix(Len(rows), cols_count, data))
    ELSE LET toks == SplitWhitespace(Trim(rows[r + 1])) IN
         IF \E p \in 1..Len(toks) : ~ParseF64(toks[p]).ok THEN Err(ErrInvalidNumber)
         ELSE IF Len(toks) # cols_count THEN Err(ErrInconsistentColumns)
         ELSE ParseRows(rows, r + 1, cols_count,
                        Append(data, [p \in 1..Len(toks) |-> ParseF64(toks[p]).val]))

from_str(s) ==
    LET rows == SplitNewline(Trim(s))
        rows_count == Len(rows)
    IN  IF rows_count = 0 THEN Err(ErrEmptyString)
        ELSE LET cols_count == Len(SplitWhitespace(Trim(rows[1]))) IN
             IF cols_count = 0 THEN Err(ErrEmptyRow)
             ELSE ParseRows(rows, 0, cols_count, <<>>)

----------------------------------------------------------------------------
(* Bounds and the inputs drawn within them *)

\* largest dimension of the operands of the binary operators
MaxPairDim == 2

\* largest dimension of the matrices given to determinant and inverse
MaxSquareDim == 4

\* largest number of equations of the systems given to the solvers
MaxSolveDim == 3

\* how many entries of a base matrix an input may differ in
MaxEdits == 1

\* longest text given to from_str
MaxTextLen == 5

EntryVals == {-1, 0, 2}

Scalars == {F(-1), <<1, 2>>}

Alphabet == {"1", "2", "-", "x", " ", "\n"}

Eye(r, c) ==
    Matrix(r, c, [i \in 1..r |-> [j \in 1..c |-> IF i = j THEN F(1) ELSE F(0)]])

\* entries -2..2 without structure; its leading square blocks are regular
Mixed(r, c) ==
    Matrix(r, c, [i \in 1..r |-> [j \in 1..c |->
        F((((i - 1) * (i - 1) + (j - 1) + (j - 1) * (j - 1) * (i - 1) + 1) % 5) - 2)]])

\* distinct entries 1, 2, 3, ... row by row
Counting(r, c) ==
    Matrix(r, c, [i \in 1..r |-> [j \in 1..c |-> F((i - 1) * c + j)]])

Bases(r, c) == {new(r, c), Eye(r, c), Mixed(r, c), Counting(r, c)}

\* infinities, NaN and a fraction, as from_str reads "inf", "-inf", "NaN", "0.5"
Extreme(r, c) ==
    Matrix(r, c, [i \in 1..r |-> [j \in 1..c |->
        <<<<1, 0>>, <<-1, 0>>, NaN, <<1, 2>>>>[((i + j) % 4) + 1]]])

PairBases(r, c) == Bases(r, c) \cup {Extreme(r, c)}

EditOnce(m) ==
    {m} \cup {Set(m, i, j, F(v)) : i \in 0..(m.rows - 1), j \in 0..(m.cols - 1),
                                   v \in EntryVals}

RECURSIVE Edited(_, _)
Edited(S, n) == IF n = 0 THEN S ELSE Edited(UNION {EditOnce(m) : m \in S}, n - 1)

PairInputs ==
    UNION {Edited(PairBases(r, c), MaxEdits) : r \in 0..MaxPairDim, c \in 0..MaxPairDim}

PairOthers == UNION {PairBases(r, c) : r \in 0..MaxPairDim, c \in 0..MaxPairDim}

SquareInputs ==
    UNION {Edited(Bases(r, c), MaxEdits) : r \in 0..MaxSquareDim, c \in 0..MaxSquareDim}

SolveInputs ==
    UNION {Edited(Bases(r, c), MaxEdits) : r \in 0..MaxSolveDim, c \in 0..(MaxSolveDim + 1)}

Texts == UNION {[1..n -> Alphabet] : n \in 0..MaxTextLen}

----------------------------------------------------------------------------
(* The caller: operands a and b, one operation at a time.  gaussian_elimination
   is followed through its forward phase step by step (aug is its working
   copy, gi its pivot index); every other operation is one step. *)

Idle ==
    /\ text = <<>>
    /\ op = "none"
    /\ out = NoResult
    /\ pc = "idle"
    /\ aug = NoMatrix
    /\ gi = 0
    /\ max_row = 0

Return(name, result) ==
    /\ pc = "idle"
    /\ op' = name
    /\ out' = result
    /\ pc' = "done"
    /\ UNCHANGED <<a, b, aug, gi, max_row>>

New ==
    /\ pc = "idle"
    /\ \E r \in 0..MaxSquareDim, c \in 0..MaxSquareDim :
         Return("new", OkMatrix(new(r, c))) /\ UNCHANGED text

FromStr ==
    /\ pc = "idle"
    /\ \E t \in Texts : Return("from_str", from_str(t)) /\ text' = t

Transpose == Return("transpose", OkMatrix(transpose(a))) /\ UNCHANGED text

Determinant == Return("determinant", determinant(a)) /\ UNCHANGED text

Inverse == Return("inverse", inverse(a)) /\ UNCHANGED text

Add == Return("add", add(a, b)) /\ UNCHANGED text

Subtract == Return("sub", sub(a, b)) /\ UNCHANGED text

ScalarMultiply ==
    /\ pc = "idle"
    /\ \E k \in Scalars :
         Return("mul_scalar", OkMatrix(mul_scalar(a, k))) /\ UNCHANGED text

Multiply == Return("mul", mul(a, b)) /\ UNCHANGED text

CramerRule ==
    /\ pc = "idle"
    /\ \E overflow_checks \in BOOLEAN :
         Return("cramer_rule", cramer_rule(a, overflow_checks)) /\ UNCHANGED text

\* lines 118-122: the dimension check and the clone
GaussCall ==
    /\ pc = "idle"
    /\ op' = "gaussian_elimination"
    /\ IF ~GaussDimsOk(a)
       THEN out' = Err(ErrGaussDims) /\ pc' = "done" /\ UNCHANGED aug
       ELSE /\ aug' = a
            /\ pc' = (IF a.rows > 0 THEN "pivot" ELSE "back")
            /\ UNCHANGED out
    /\ UNCHANGED <<a, b, text, gi, max_row>>

\* lines 127-137 of pivot step gi
GaussPivot ==
    /\ pc = "pivot"
    /\ max_row' = MaxRow(aug, gi)
    /\ aug' = PivotStep(aug, gi)
    /\ pc' = "elim"
    /\ UNCHANGED <<a, b, text, op, out, gi>>

\* lines 140-145 of pivot step gi, and the loop's increment
GaussEliminate ==
    /\ pc = "elim"
    /\ aug' = EliminateStep(aug, gi)
    /\ gi' = gi + 1
    /\ pc' = (IF gi + 1 < aug.rows THEN "pivot" ELSE "back")
    /\ UNCHANGED <<a, b, text, op, out, max_row>>

\* lines 149-158
GaussBack ==
    /\ pc = "back"
    /\ out' = OkVector(BackSubstitute(aug))
    /\ pc' = "done"
    /\ UNCHANGED <<a, b, text, op, aug, gi, max_row>>

\* the binary operators, on every pair of operands
Init == a \in PairInputs /\ b \in PairOthers /\ Idle

Next ==
    \/ Add
    \/ Subtract
    \/ Multiply

Spec == Init /\ [][Next]_vars

\* the two ways a matrix comes to be: Matrix::new and from_str
InitBuild == a = NoMatrix /\ b = NoMatrix /\ Idle

NextBuild == New \/ FromStr

SpecBuild == InitBuild /\ [][NextBuild]_vars

\* the operations on one matrix
InitUnary == a \in SquareInputs /\ b = NoMatrix /\ Idle

NextUnary ==
    \/ Determinant
    \/ Inverse
    \/ Transpose
    \/ ScalarMultiply

SpecUnary == InitUnary /\ [][NextUnary]_vars

\* the two solvers
InitSolve == a \in SolveInputs /\ b = NoMatrix /\ Idle

NextSolve ==
    \/ GaussCall
    \/ GaussPivot
    \/ GaussEliminate
    \/ GaussBack
    \/ CramerRule

SpecSolve == InitSolve /\ [][NextSolve]_vars

----------------------------------------------------------------------------
(* Notions the properties are stated with *)

\* data has `rows` rows of `cols` entries each
WellShaped(m) ==
    /\ Len(m.data) = m.rows
    /\ \A i \in 1..m.rows : Len(m.data[i]) = m.cols

Positive(m) == m.rows > 0 /\ m.cols > 0

\* #[derive(PartialEq)] on Matrix
MatrixEq(m, n) ==
    /\ m.rows = n.rows /\ m.cols = n.cols
    /\ Len(m.data) = Len(n.data)
    /\ \A i \in 1..Len(m.data) :
         /\ Len(m.data[i]) = Len(n.data[i])
         /\ \A j \in 1..Len(m.data[i]) : FEq(m.data[i][j], n.data[i][j])

\* the integer an integer-valued entry holds
IntOf(x) == x[1]

IsInteger(x) == x[2] = 1

IntegerEntries(m) == \A i \in 1..m.rows, j \in 1..m.cols : IsInteger(m.data[i][j])

PermsOf(n) == {p \in [1..n -> 1..n] : \A i, j \in 1..n : i # j => p[i] # p[j]}

Perms == [n \in 1..(MaxSquareDim + 1) |-> PermsOf(n)]

PermSign(p, n) ==
    IF Cardinality({ij \in (1..n) \X (1..n) : ij[1] < ij[2] /\ p[ij[1]] > p[ij[2]]}) % 2 = 0
    THEN 1 ELSE -1

RECURSIVE PermProduct(_, _, _)
PermProduct(m, p, i) ==
    IF i > m.rows THEN 1 ELSE IntOf(m.data[i][p[i]]) * PermProduct(m, p, i + 1)

RECURSIVE LeibnizSum(_, _)
LeibnizSum(m, P) ==
    IF P = {} THEN 0
    ELSE LET p == CHOOSE q \in P : TRUE IN
         PermSign(p, m.rows) * PermProduct(m, p, 1) + LeibnizSum(m, P \ {p})

\* the determinant of an integer matrix of size n >= 1 as the sum over permutations
Leibniz(m) == LeibnizSum(m, Perms[m.rows])

RECURSIVE DotInt(_, _, _, _, _)
\* sum over k < n of m[i][k] * other[k][j], in the integers
DotInt(m, other, i, j, n) ==
    IF n = 0 THEN 0
    ELSE DotInt(m, other, i, j, n - 1) + IntOf(At(m, i, n - 1)) * IntOf(At(other, n - 1, j))

----------------------------------------------------------------------------
(* C1 *)

\* C1: every matrix returned by Matrix::new, by a successful from_str or by a
\* successful operation on positive-dimension operands has `rows` rows of `cols`
\* entries each, and rows > 0 and cols > 0.  Matrix::new(0, c) and
\* Matrix::new(r, 0) return a matrix with a zero dimension.
C1_ReturnedMatrixWellFormed ==
    (out.tag = "OkMatrix" /\ (op \in {"new", "from_str"} \/ (Positive(a) /\ Positive(b))))
        => WellShaped(out.m) /\ Positive(out.m)

----------------------------------------------------------------------------
(* C2 *)

\* C2: determinant fails with the not-square error exactly when rows # cols, and
\* on a square matrix of size n >= 1 with integer entries it returns the Leibniz
\* sum over permutations; the determinant of the identity is 1.
C2_DeterminantIsLeibniz ==
    op = "determinant" =>
        /\ (out.tag = "Err") <=> (a.rows # a.cols)
        /\ a.rows # a.cols => out = Err(ErrNotSquare)
        /\ (a.rows = a.cols /\ a.rows >= 1) => out = OkScalar(F(Leibniz(a)))
        /\ (a.rows >= 1 /\ a = Eye(a.rows, a.rows)) => out = OkScalar(F(1))

\* C2 witness: a determinant of a matrix of the largest size that is neither 0 nor 1
C2_Witness ==
    /\ op = "determinant"
    /\ a.rows = MaxSquareDim /\ a.cols = MaxSquareDim
    /\ out.tag = "OkScalar" /\ out.x \notin {F(0), F(1)}

----------------------------------------------------------------------------
(* C3 *)

\* C3: on a square matrix, inverse fails with the singular error when the
\* determinant is zero and otherwise returns a matrix whose product with the
\* operand is the identity; on a non-square matrix it fails with the not-square
\* error.
C3_InverseContract ==
    op = "inverse" =>
        IF a.rows # a.cols THEN out = Err(ErrNotSquare)
        ELSE IF FEq(determinant(a).x, F(0)) THEN out = Err(ErrNotInvertible)
        ELSE /\ out.tag = "OkMatrix"
             /\ mul(a, out.m).tag = "OkMatrix"
             /\ MatrixEq(mul(a, out.m).m, Eye(a.rows, a.rows))

\* C3 witness: an inverse of a 3 x 3 or larger matrix with an entry that is not an integer
C3_Witness ==
    /\ op = "inverse" /\ out.tag = "OkMatrix"
    /\ a.rows >= 3
    /\ \E i \in 1..a.rows, j \in 1..a.cols : out.m.data[i][j][2] > 1

----------------------------------------------------------------------------
(* C8 *)

\* C8: the matrix product fails with the incompatible-dimensions error exactly
\* when a.cols # b.rows; otherwise it is the a.rows x b.cols matrix whose entry
\* (i, j) is, for operands with integer entries, the sum over k of
\* a[i][k] * b[k][j].
C8_MultiplyContract ==
    op = "mul" =>
        /\ (out.tag = "Err") <=> (a.cols # b.rows)
        /\ a.cols # b.rows => out = Err(ErrIncompatible)
        /\ a.cols = b.rows =>
            /\ out.tag = "OkMatrix"
            /\ WellShaped(out.m) /\ out.m.rows = a.rows /\ out.m.cols = b.cols
            /\ (IntegerEntries(a) /\ IntegerEntries(b)) =>
                 \A i \in 0..(a.rows - 1), j \in 0..(b.cols - 1) :
                     At(out.m, i, j) = F(DotInt(a, b, i, j, a.cols))
        /\ mul(Matrix(2, 2, <<<<F(1), F(2)>>, <<F(3), F(4)>>>>),
               Matrix(2, 2, <<<<F(5), F(6)>>, <<F(7), F(8)>>>>))
             = OkMatrix(Matrix(2, 2, <<<<F(19), F(22)>>, <<F(43), F(50)>>>>))

\* C8 witness: a product of two full-size matrices with a nonzero entry
C8_Witness ==
    /\ op = "mul" /\ out.tag = "OkMatrix"
    /\ a.rows = MaxPairDim /\ a.cols = MaxPairDim /\ b.cols = MaxPairDim
    /\ IntegerEntries(a) /\ IntegerEntries(b)
    /\ \E i \in 1..a.rows, j \in 1..b.cols : out.m.data[i][j] # F(0)

----------------------------------------------------------------------------
(* C9 *)

\* C9: a - b and a + (b * -1.0) have the same outcome: the different-dimensions
\* error when the shapes differ, and otherwise matrices of a's shape with the
\* same entries (where one holds NaN so does the other).
C9_SubtractIsAddNegated ==
    op = "sub" =>
        LET other == add(a, mul_scalar(b, F(-1))) IN
        IF a.rows # b.rows \/ a.cols # b.cols
        THEN out = Err(ErrDifferentDims) /\ other = Err(ErrDifferentDims)
        ELSE /\ out.tag = "OkMatrix" /\ other.tag = "OkMatrix"
             /\ out.m = other.m
             /\ WellShaped(out.m) /\ out.m.rows = a.rows /\ out.m.cols = a.cols

\* C9 witness: a difference of two full-size matrices with a finite nonzero entry and,
\* from inf - inf, a NaN entry the minuend does not have
C9_Witness ==
    /\ op = "sub" /\ out.tag = "OkMatrix"
    /\ a.rows = MaxPairDim /\ a.cols = MaxPairDim
    /\ \E i \in 1..a.rows, j \in 1..a.cols :
         IsFinite(out.m.data[i][j]) /\ ~IsZero(out.m.data[i][j])
    /\ \E i \in 1..a.rows, j \in 1..a.cols :
         IsNaN(out.m.data[i][j]) /\ IsInf(a.data[i][j])

----------------------------------------------------------------------------
(* C4, C5 *)

\* x >= y on f64
FGe(x, y) == FGt(x, y) \/ FEq(x, y)

VecEq(v, w) == Len(v) = Len(w) /\ \A i \in 1..Len(v) : FEq(v[i], w[i])

RECURSIVE RowDot(_, _, _, _)
\* sum over j < n of m[i][j] * x[j]
RowDot(m, x, i, n) ==
    IF n = 0 THEN F(0)
    ELSE FAdd(RowDot(m, x, i, n - 1), FMul(At(m, i, n - 1), x[n]))

\* x solves every equation of the augmented system m
Solves(m, x) ==
    \A i \in 0..(m.rows - 1) : FEq(RowDot(m, x, i, m.rows), At(m, i, m.rows))

\* the determinant of the coefficient block is a nonzero number
Regular(m) ==
    LET d == determinant(CoreMatrix(m, m.rows)) IN
    d.tag = "OkScalar" /\ ~IsNaN(d.x) /\ ~FEq(d.x, F(0))

\* C4: on an augmented matrix (cols = rows + 1) whose coefficient block has a
\* nonzero determinant, gaussian_elimination and cramer_rule both succeed, with
\* the same vector of `rows` components, and the vector solves every equation.
C4_SolversAgree ==
    (pc = "done" /\ op \in {"gaussian_elimination", "cramer_rule"}
        /\ a.cols = a.rows + 1 /\ Regular(a)) =>
        /\ out.tag = "OkVector"
        /\ Len(out.v) = a.rows
        /\ gaussian_elimination(a).tag = "OkVector"
        /\ VecEq(out.v, gaussian_elimination(a).v)
        /\ \A overflow_checks \in BOOLEAN :
             /\ cramer_rule(a, overflow_checks).tag = "OkVector"
             /\ VecEq(out.v, cramer_rule(a, overflow_checks).v)
        /\ Solves(a, out.v)

\* C4 witness: gaussian_elimination returned a solution with a component that is not an
\* integer, of a full-size system whose first pivot step swapped rows
C4_Witness ==
    /\ pc = "done" /\ op = "gaussian_elimination"
    /\ a.rows = MaxSolveDim /\ a.cols = a.rows + 1 /\ Regular(a)
    /\ out.tag = "OkVector"
    /\ MaxRow(a, 0) # 0
    /\ \E i \in 1..Len(out.v) : out.v[i][2] > 1

\* C5: on every matrix with cols # rows + 1, zero dimensions included, both
\* solvers return their invalid-dimensions error as a value.  cramer_rule
\* computes cols - 1 on usize: with cols = 0 a build with overflow checks panics.
C5_InvalidAugmentedIsReturned ==
    (pc = "done" /\ a.cols # a.rows + 1) =>
        /\ op = "gaussian_elimination" => out = Err(ErrGaussDims)
        /\ op = "cramer_rule" => out = Err(ErrCramerDims)

----------------------------------------------------------------------------
(* C10 *)

\* the pivots of the steps before step i, which stay on the diagonal, were
\* nonzero numbers
NoZeroPivotBefore(m, i) ==
    \A q \in 0..(i - 1) : ~IsNaN(At(m, q, q)) /\ ~FEq(At(m, q, q), F(0))

\* at pc = "elim": m is the working copy before the swap of step i, row r the
\* row chosen; r is the lowest-indexed row of i.. with the largest |m[k][i]|
LowestMaximal(m, i, r) ==
    /\ r \in i..(m.rows - 1)
    /\ \A k \in (i..(m.rows - 1)) \ {r} : FGe(FAbs(At(m, r, i)), FAbs(At(m, k, i)))
    /\ \A k \in i..(r - 1) : FGt(FAbs(At(m, r, i)), FAbs(At(m, k, i)))

\* the pivot in place dominates the column below it, and is zero only if the
\* column is zero from row i down
PivotDominates(m, i) ==
    /\ \A k \in (i + 1)..(m.rows - 1) : FGe(FAbs(At(m, i, i)), FAbs(At(m, k, i)))
    /\ FEq(At(m, i, i), F(0)) => \A k \in i..(m.rows - 1) : FEq(At(m, k, i), F(0))

\* column i is zero below a pivot that is not zero
ClearedBelow(m, i) ==
    ~FEq(At(m, i, i), F(0)) => \A k \in (i + 1)..(m.rows - 1) : FEq(At(m, k, i), F(0))

\* C10 as stated: at every pivot step the row swapped into place is the
\* lowest-indexed row of largest absolute value in the column, the pivot dominates
\* the column below it and is zero only if the column is zero, and the step
\* leaves zeros below a nonzero pivot.
C10_PivotIsColumnMaximum ==
    /\ pc = "elim" =>
        /\ LowestMaximal(SwapRows(aug, gi, max_row), gi, max_row)
        /\ PivotDominates(aug, gi)
    /\ (pc \in {"pivot", "back"} /\ gi >= 1) => ClearedBelow(aug, gi - 1)

\* C10 amended: for a system of finite entries, the same at every pivot step
\* before which no pivot was zero (a zero pivot fills the rows below it with
\* NaN, 0/0): the row chosen is the lowest-indexed row of largest absolute value
\* in the column, the pivot dominates the column below it and is zero only if
\* the column is zero, and the step leaves zeros below a nonzero pivot.
C10_PivotIsMaximumUntilZeroPivot ==
    /\ (pc = "elim" /\ NoZeroPivotBefore(aug, gi)) =>
        /\ LowestMaximal(SwapRows(aug, gi, max_row), gi, max_row)
        /\ PivotDominates(aug, gi)
    /\ (pc \in {"pivot", "back"} /\ gi >= 1 /\ NoZeroPivotBefore(aug, gi - 1)) =>
        ClearedBelow(aug, gi - 1)

\* C10 witness: the second pivot step of a full-size system swapped rows, and the first left
\* zeros below a nonzero pivot where the operand had none
C10_Witness ==
    /\ pc = "elim" /\ gi = 1 /\ max_row # gi
    /\ aug.rows = MaxSolveDim
    /\ NoZeroPivotBefore(aug, gi)
    /\ \A k \in 1..(a.rows - 1) : ~FEq(At(a, k, 0), F(0))

----------------------------------------------------------------------------
(* C6, C7 *)

AllWhitespace(s) == \A p \in 1..Len(s) : IsWhitespace(s[p])

\* the tokens of row r (from 0) of the text s
Tokens(s, r) == SplitWhitespace(Trim(SplitNewline(Trim(s))[r + 1]))

BadToken(s, r) == \E p \in 1..Len(Tokens(s, r)) : ~ParseF64(Tokens(s, r)[p]).ok

WrongCount(s, r) == Len(Tokens(s, r)) # Len(Tokens(s, 0))

FailingRows(s) ==
    {r \in 0..(Len(SplitNewline(Trim(s))) - 1) : BadToken(s, r) \/ WrongCount(s, r)}

FirstFailingRow(s) == CHOOSE r \in FailingRows(s) : \A q \in FailingRows(s) : r <= q

\* the row and column (from 0) of the first unparsable token of the first failing row
BadPosition(s) ==
    LET r == FirstFailingRow(s) IN
    <<r, (CHOOSE p \in 1..Len(Tokens(s, r)) :
            /\ ~ParseF64(Tokens(s, r)[p]).ok
            /\ \A q \in 1..(p - 1) : ParseF64(Tokens(s, r)[q]).ok) - 1>>

\* C6: a text with no rows (empty, or whitespace and newlines only) fails with
\* the empty-input error, and the empty-row error is returned only for a text
\* that has a first row.  split('\n') of the empty string yields one empty
\* piece, so the row count is never 0 and such a text gets the empty-row error.
C6_EmptyInputVersusEmptyRow ==
    op = "from_str" =>
        /\ AllWhitespace(text) => out = Err(ErrEmptyString)
        /\ out = Err(ErrEmptyRow) => ~AllWhitespace(text)

====
